---- MODULE Spec2Model ----
(***************************************************************************)
(* A model of libptmalloc's "ptmeta" command (frontend/commands/gdb/       *)
(* ptmeta.py): the metadata database meta_cache, the backtrace ignore set, *)
(* the query function get_metadata() and the command handlers reached from *)
(* ptmeta.invoke().                                                        *)
(*                                                                         *)
(* Representation of Python values:                                        *)
(*   - a Python str that the code splits on ":" (a metadata key, a         *)
(*     requested metadata name) is the sequence of its ":"-separated       *)
(*     segments: "tag" is <<"tag">>, "backtrace:-1" is <<"backtrace","-1">>*)
(*     so that key.split(":") is the sequence itself;                      *)
(*   - a str the code builds by += / % / join is a rope, the sequence of   *)
(*     the pieces appended; Text(rope) is the resulting Python str;        *)
(*   - a dict is the sequence of its [k, v] items in insertion order;      *)
(*   - a stored value or an entry of the returned list L is a record       *)
(*     [kind, str, funcs]: None, a str, the backtrace dict or a list.      *)
(***************************************************************************)
EXTENDS Integers, Sequences, FiniteSets, TLC

VARIABLES
    meta_cache,        \* the module global meta_cache: address -> {key -> value}
    backtrace_ignore,  \* the module global backtrace_ignore: set of function names
    db_file,           \* the file METADATA_DB ("metadata.pickle")
    args,              \* self.args of the latest ptmeta.invoke()
    out,               \* what the latest invoke() printed, line by line
    exc                \* the exception that left the latest invoke(), "" if none

vars == <<meta_cache, backtrace_ignore, db_file, args, out, exc>>

----------------------------------------------------------------------------
(* Python values *)

PyNone == [kind |-> "None", str |-> "", funcs |-> <<>>]

PyStr(s) == [kind |-> "str", str |-> s, funcs |-> <<>>]

PyList(l) == [kind |-> "list", str |-> "", funcs |-> l]

\* the dict get_backtrace() returns: d["raw"], d["funcs"]
BacktraceDict(raw, funcs) == [kind |-> "dict", str |-> raw, funcs |-> funcs]

\* "%s" % value
Format(value) ==
    IF value.kind = "None" THEN "None" ELSE value.str

RECURSIVE Text(_)
\* the Python str a rope stands for
Text(rope) ==
    IF rope = <<>> THEN "" ELSE Head(rope) \o Text(Tail(rope))

RECURSIVE Join(_, _)
\* sep.join(strs), as a rope
Join(sep, strs) ==
    IF strs = <<>> THEN <<>>
    ELSE IF Len(strs) = 1 THEN <<strs[1]>>
    ELSE <<strs[1], sep>> \o Join(sep, Tail(strs))

\* the Python str of a key held as its ":"-separated segments
KeyText(key) == Text(Join(":", key))

----------------------------------------------------------------------------
(* Python dict, insertion ordered *)

DictHas(d, k) == \E i \in 1..Len(d) : d[i].k = k

DictIndex(d, k) == CHOOSE i \in 1..Len(d) : d[i].k = k

DictGet(d, k) == d[DictIndex(d, k)].v

\* d[k] = v: an existing key keeps its place, a new key goes last
DictSet(d, k, v) ==
    IF DictHas(d, k)
    THEN [d EXCEPT ![DictIndex(d, k)] = [k |-> k, v |-> v]]
    ELSE Append(d, [k |-> k, v |-> v])

\* del d[k]
DictDel(d, k) == SelectSeq(d, LAMBDA e : e.k # k)

\* list(d.keys())
DictKeys(d) == [i \in 1..Len(d) |-> d[i].k]

\* list.remove(x): drops the first occurrence
ListRemove(l, x) ==
    LET i == CHOOSE j \in 1..Len(l) : l[j] = x /\ \A h \in 1..(j - 1) : l[h] # x
    IN  SubSeq(l, 1, i - 1) \o SubSeq(l, i + 1, Len(l))

ListHas(l, x) == \E i \in 1..Len(l) : l[i] = x

----------------------------------------------------------------------------
(* colorize_table *)

\* the keys of colorize_table, in the order the table lists them
PaletteNames ==
    <<"red", "green", "yellow", "blue", "purple", "cyan", "gray", "lightred",
      "lightgreen", "lightyellow", "lightblue", "lightpurple", "lightcyan",
      "lightgray", "white", "black">>

Palette == {PaletteNames[i] : i \in 1..Len(PaletteNames)}

\* the printutils function bound to each palette name
colorize_table ==
    [c \in Palette |->
        CASE c = "lightred" -> "pu.light_red"
          [] c = "lightgreen" -> "pu.light_green"
          [] c = "lightyellow" -> "pu.light_yellow"
          [] c = "lightblue" -> "pu.light_blue"
          [] c = "lightpurple" -> "pu.light_purple"
          [] c = "lightcyan" -> "pu.light_cyan"
          [] c = "lightgray" -> "pu.light_gray"
          [] OTHER -> "pu." \o c]

\* colorize_func(text): str is the identity, a printutils function wraps the text
Colorize(colorize_func, text) ==
    IF colorize_func = "str" THEN text
    ELSE "<" \o colorize_func \o ">" \o text \o "</>"

----------------------------------------------------------------------------
(* int(param) *)

IntTexts == {"-1", "0", "1", "2", "3"}

\* int() of a decimal text; any other text raises ValueError
ParseInt(s) ==
    CASE s = "-1" -> -1
      [] s = "0" -> 0
      [] s = "1" -> 1
      [] s = "2" -> 2
      [] s = "3" -> 3

----------------------------------------------------------------------------
(* get_functions / get_first_function *)

RECURSIVE get_functions_loop(_, _, _, _)
\* the for loop of get_functions; max_len is <<>> for None, <<n>> for n
get_functions_loop(funcs, i, L, max_len) ==
    IF i > Len(funcs) THEN L
    ELSE IF funcs[i] \in backtrace_ignore
         THEN get_functions_loop(funcs, i + 1, L, max_len)
         ELSE LET L2 == Append(L, funcs[i])
              IN  IF max_len # <<>> /\ Len(L2) = max_len[1]
                  THEN L2
                  ELSE get_functions_loop(funcs, i + 1, L2, max_len)

get_functions(address, max_len) ==
    IF ~DictHas(meta_cache, address) THEN PyNone
    ELSE IF ~DictHas(DictGet(meta_cache, address), <<"backtrace">>) THEN PyNone
    ELSE PyList(get_functions_loop(
             DictGet(DictGet(meta_cache, address), <<"backtrace">>).funcs,
             1, <<>>, max_len))

get_first_function(address) == get_functions(address, <<1>>)

----------------------------------------------------------------------------
(* get_metadata *)

\* the list_metadata argument: the str "all", or a list of requested names
MetadataAll == [all |-> TRUE, list |-> <<>>]

MetadataList(l) == [all |-> FALSE, list |-> l]

\* the tuple get_metadata returns (L_is_None: the first component is None);
\* raised names the exception when the call does not return
Returned(L_is_None, L, suffix, epilog, colorize_func) ==
    [raised |-> "", L_is_None |-> L_is_None, L |-> L, suffix |-> suffix,
     epilog |-> epilog, colorize_func |-> colorize_func]

Raised(e) ==
    [raised |-> e, L_is_None |-> TRUE, L |-> <<>>, suffix |-> <<>>,
     epilog |-> <<>>, colorize_func |-> "str"]

\* "if list_metadata == 'all'": the record's keys, "backtrace" moved last as
\* "backtrace:-1"
ExpandAll(address, list_metadata) ==
    IF list_metadata.all
    THEN IF DictHas(DictGet(meta_cache, address), <<"backtrace">>)
         THEN Append(ListRemove(DictKeys(DictGet(meta_cache, address)), <<"backtrace">>),
                     <<"backtrace", "-1">>)
         ELSE DictKeys(DictGet(meta_cache, address))
    ELSE list_metadata.list

\* the suffix cell without the "filtered" case
BacktraceCell_no_filtered(funcs_list) ==
    IF funcs_list.kind = "None" \/ Len(funcs_list.funcs) = 0 THEN <<" | ", "N/A">>
    ELSE <<" | ", Text(Join(",", funcs_list.funcs))>>

\* the suffix cell of a resolved backtrace
BacktraceCell(funcs_list) ==
    IF funcs_list.kind = "None" THEN <<" | ", "N/A">>
    ELSE IF Len(funcs_list.funcs) = 0 THEN <<" | ", "filtered">>
    ELSE <<" | ", Text(Join(",", funcs_list.funcs))>>

\* the missing-key branch without "L.append(None)"
step_missing_no_placeholder(key, acc) ==
    IF key # "color"
    THEN [acc EXCEPT
            !.suffix = acc.suffix \o <<" | ", "N/A">>,
            !.epilog = Append(acc.epilog,
                "'" \o key \o "' key not found in metadata database\n"),
            !.opened = TRUE]
    ELSE acc

\* "if key not in meta_cache[address]"
step_missing(key, acc) ==
    IF key # "color"
    THEN [acc EXCEPT
            !.suffix = acc.suffix \o <<" | ", "N/A">>,
            !.epilog = Append(acc.epilog,
                "'" \o key \o "' key not found in metadata database\n"),
            !.opened = TRUE,
            !.L = Append(acc.L, PyNone)]
    ELSE acc

\* the rest of "if key == 'backtrace'", once funcs_list is resolved
step_backtrace(raw, funcs_list, acc) ==
    [acc EXCEPT
        !.suffix = acc.suffix \o BacktraceCell(funcs_list),
        !.epilog = Append(acc.epilog, raw),
        !.L = Append(acc.L, funcs_list),
        !.opened = TRUE]

\* the color branch marking the result as opened
step_color_opened(color, acc) ==
    IF color.kind = "str" /\ color.str \in Palette
    THEN [acc EXCEPT !.colorize_func = colorize_table[color.str], !.opened = TRUE]
    ELSE [acc EXCEPT !.raised = "KeyError"]

\* "elif key == 'color'": colorize_table[color] raises KeyError off the palette
step_color(color, acc) ==
    IF color.kind = "str" /\ color.str \in Palette
    THEN [acc EXCEPT !.colorize_func = colorize_table[color.str]]
    ELSE [acc EXCEPT !.raised = "KeyError"]

\* "else": a plain value
step_plain(value, acc) ==
    [acc EXCEPT
        !.suffix = acc.suffix \o <<" | ", Format(value)>>,
        !.epilog = Append(acc.epilog, Format(value) \o "\n"),
        !.L = Append(acc.L, value),
        !.opened = TRUE]

\* one iteration of "for key in list_metadata" on the accumulators acc, for
\* the requested name spec (its ":"-separated segments) and the record of the
\* address; acc.raised is set when the iteration raises
get_metadata_step(address, record, spec, acc) ==
    IF Len(spec) > 2
    THEN [acc EXCEPT !.raised = "ValueError"]       \* key, param = key.split(":")
    ELSE IF ~DictHas(record, <<spec[1]>>)
    THEN step_missing(spec[1], acc)
    ELSE IF spec[1] = "backtrace"
    THEN IF Len(spec) = 1
         THEN step_backtrace(DictGet(record, <<"backtrace">>).str,
                             get_first_function(address), acc)
         ELSE IF spec[2] \notin IntTexts
         THEN [acc EXCEPT !.raised = "ValueError"]  \* int(param)
         ELSE step_backtrace(DictGet(record, <<"backtrace">>).str,
                             get_functions(address, <<ParseInt(spec[2])>>), acc)
    ELSE IF spec[1] = "color"
    THEN step_color(DictGet(record, <<"color">>), acc)
    ELSE step_plain(DictGet(record, <<spec[1]>>), acc)

RECURSIVE get_metadata_loop(_, _, _, _)
get_metadata_loop(address, specs, i, acc) ==
    IF acc.raised # "" \/ i > Len(specs) THEN acc
    ELSE get_metadata_loop(address, specs, i + 1,
             get_metadata_step(address, DictGet(meta_cache, address), specs[i], acc))

\* "if opened: suffix += ' |'" and the return
get_metadata_return(acc) ==
    IF acc.raised # "" THEN Raised(acc.raised)
    ELSE Returned(FALSE, acc.L,
                  IF acc.opened THEN Append(acc.suffix, " |") ELSE acc.suffix,
                  acc.epilog, acc.colorize_func)

get_metadata(address, list_metadata) ==
    IF ~DictHas(meta_cache, address)
    THEN Returned(TRUE, <<>>, <<>>,
                  <<"chunk address not found in metadata database\n">>, "str")
    ELSE get_metadata_return(
             get_metadata_loop(address, ExpandAll(address, list_metadata), 1,
                 [raised |-> "", L |-> <<>>, suffix |-> <<>>, epilog |-> <<>>,
                  colorize_func |-> "str", opened |-> FALSE]))

----------------------------------------------------------------------------
(* collaborators: the debugger and the snapshot file *)

\* self.dbg.parse_address(text): the addresses an address expression resolves to
parse_address(text) ==
    CASE text = "0x10" -> <<16>>
      [] text = "0x20" -> <<32>>
      [] OTHER -> <<>>

HexDigits ==
    <<"0", "1", "2", "3", "4", "5", "6", "7", "8", "9", "a", "b", "c", "d", "e", "f">>

RECURSIVE HexText(_)
\* format(k, "x")
HexText(k) ==
    IF k < 16 THEN HexDigits[k + 1]
    ELSE HexText(k \div 16) \o HexDigits[(k % 16) + 1]

\* a dump that writes the database but not the ignore set
Pickle_without_ignore(d) ==
    [meta_cache |->
        [i \in 1..Len(d.meta_cache) |->
            <<d.meta_cache[i].k,
              [j \in 1..Len(d.meta_cache[i].v) |->
                  <<d.meta_cache[i].v[j].k, d.meta_cache[i].v[j].v>>]>>],
     backtrace_ignore |-> {}]

\* pickle.dump(d, file): the dict's items and the set, written out
Pickle(d) ==
    [meta_cache |->
        [i \in 1..Len(d.meta_cache) |->
            <<d.meta_cache[i].k,
              [j \in 1..Len(d.meta_cache[i].v) |->
                  <<d.meta_cache[i].v[j].k, d.meta_cache[i].v[j].v>>]>>],
     backtrace_ignore |-> d.backtrace_ignore]

\* pickle.load(file): the dict rebuilt from the written items
Unpickle(p) ==
    [meta_cache |->
        [i \in 1..Len(p.meta_cache) |->
            [k |-> p.meta_cache[i][1],
             v |-> [j \in 1..Len(p.meta_cache[i][2]) |->
                      [k |-> p.meta_cache[i][2][j][1],
                       v |-> p.meta_cache[i][2][j][2]]]]],
     backtrace_ignore |-> p.backtrace_ignore]

NoFile == [exists |-> FALSE, data |-> Pickle([meta_cache |-> <<>>, backtrace_ignore |-> {}])]

----------------------------------------------------------------------------
(* what a handler leaves behind: the globals, the file, the output, the exception *)

Effect(mc, ignore, file, printed, raised) ==
    [meta_cache |-> mc, backtrace_ignore |-> ignore, db_file |-> file,
     out |-> printed, exc |-> raised]

\* a handler that only prints
Printed(printed) == Effect(meta_cache, backtrace_ignore, db_file, printed, "")

\* self.parser.print_help()
HelpLine == <<"usage: ptmeta [-v] [-h] {add,del,list,config} ...">>

save_metadata_to_file ==
    [exists |-> TRUE,
     data |-> Pickle([meta_cache |-> meta_cache, backtrace_ignore |-> backtrace_ignore])]

\* the (meta_cache, backtrace_ignore) load_metadata_from_file assigns, or the
\* exception open() raises when there is no file
load_metadata_from_file(printed) ==
    IF ~db_file.exists
    THEN Effect(meta_cache, backtrace_ignore, db_file, printed, "FileNotFoundError")
    ELSE LET d == Unpickle(db_file.data)
         IN  Effect(d.meta_cache, d.backtrace_ignore, db_file, printed, "")

----------------------------------------------------------------------------
(* ptmeta.add_metadata / delete_metadata / configure_metadata *)

\* add_metadata without the palette check: any value is stored as a color
add_metadata_unchecked(a, address, key, value, capture) ==
    Effect(DictSet(IF ~DictHas(meta_cache, address)
                   THEN DictSet(meta_cache, address, <<>>) ELSE meta_cache,
                   address,
                   DictSet(IF ~DictHas(meta_cache, address) THEN <<>>
                           ELSE DictGet(meta_cache, address),
                           key, IF key = <<"backtrace">> THEN capture ELSE value)),
           backtrace_ignore, db_file,
           IF a.verbose >= 1 THEN << <<"Adding to metadata database...">> >> ELSE <<>>,
           "")

\* add_metadata creating the record before the palette check
add_metadata_create_first(a, address, key, value, capture) ==
    IF key = <<"color">> /\ ~(value.kind = "str" /\ value.str \in Palette)
    THEN Effect(IF ~DictHas(meta_cache, address)
                THEN DictSet(meta_cache, address, <<>>) ELSE meta_cache,
                backtrace_ignore, db_file,
                << <<"ERROR: Unsupported color. Need one of: ">>
                       \o Join(", ", PaletteNames) >>,
                "")
    ELSE add_metadata_unchecked(a, address, key, value, capture)

add_metadata(a, address, key, value, capture) ==
    LET printed == IF a.verbose >= 1 THEN << <<"Adding to metadata database...">> >>
                   ELSE <<>>
        result  == IF key = <<"backtrace">> THEN capture ELSE value
        mc1     == IF ~DictHas(meta_cache, address)
                   THEN DictSet(meta_cache, address, <<>>)
                   ELSE meta_cache
        mc2     == DictSet(mc1, address, DictSet(DictGet(mc1, address), key, result))
    IN  IF key = <<"color">> /\ ~(value.kind = "str" /\ value.str \in Palette)
        THEN Printed(Append(printed,
                 <<"ERROR: Unsupported color. Need one of: ">> \o Join(", ", PaletteNames)))
        ELSE Effect(mc2, backtrace_ignore, db_file, printed, "")

\* delete_metadata without "if address not in meta_cache: return"
delete_metadata_unguarded(a, address) ==
    IF ~DictHas(meta_cache, address)
    THEN Effect(meta_cache, backtrace_ignore, db_file,
                IF a.verbose >= 1
                THEN << <<"Deleting metadata for ", ToString(address),
                          " from database...">> >>
                ELSE <<>>,
                "KeyError")
    ELSE Effect(DictDel(meta_cache, address), backtrace_ignore, db_file,
                IF a.verbose >= 1
                THEN << <<"Deleting metadata for ", ToString(address),
                          " from database...">> >>
                ELSE <<>>,
                "")

delete_metadata(a, address) ==
    IF ~DictHas(meta_cache, address) THEN Printed(<<>>)
    ELSE Effect(DictDel(meta_cache, address), backtrace_ignore, db_file,
                IF a.verbose >= 1
                THEN << <<"Deleting metadata for ", ToString(address),
                          " from database...">> >>
                ELSE <<>>,
                "")

\* configure_metadata with symmetric_difference_update in place of update
configure_metadata_toggle(a, feature, key, values) ==
    IF key = <<"backtrace">> /\ feature = "ignore"
    THEN Effect(meta_cache,
                (backtrace_ignore \ {values[i] : i \in 1..Len(values)})
                    \cup ({values[i] : i \in 1..Len(values)} \ backtrace_ignore),
                db_file,
                IF a.verbose >= 1 THEN << <<"Configuring metadata database...">> >>
                ELSE <<>>,
                "")
    ELSE Printed(<< <<"WARNING: Unsupported feature or key">> >>)

\* configure_metadata without the test of the key
configure_metadata_any_key(a, feature, key, values) ==
    IF feature = "ignore"
    THEN Effect(meta_cache,
                backtrace_ignore \cup {values[i] : i \in 1..Len(values)},
                db_file,
                IF a.verbose >= 1 THEN << <<"Configuring metadata database...">> >>
                ELSE <<>>,
                "")
    ELSE Printed(<< <<"WARNING: Unsupported feature">> >>)

configure_metadata(a, feature, key, values) ==
    LET printed == IF a.verbose >= 1 THEN << <<"Configuring metadata database...">> >>
                   ELSE <<>>
    IN  IF key = <<"backtrace">>
        THEN IF feature = "ignore"
             THEN Effect(meta_cache,
                         backtrace_ignore \cup {values[i] : i \in 1..Len(values)},
                         db_file, printed, "")
             ELSE Printed(Append(printed, <<"WARNING: Unsupported feature">>))
        ELSE Printed(Append(printed, <<"WARNING: Unsupported key">>))

----------------------------------------------------------------------------
(* ptmeta.list_metadata *)

\* str.strip() of one comma-separated item of --metadata, on the texts the
\* model's commands use: leading blanks leave the first segment, trailing
\* blanks the last one
LStrip(seg) ==
    CASE seg = " backtrace" -> "backtrace"
      [] seg = " tag" -> "tag"
      [] seg = " color" -> "color"
      [] OTHER -> seg

RStrip(seg) ==
    CASE seg = "tag " -> "tag"
      [] seg = "2 " -> "2"
      [] OTHER -> seg

Strip(item) ==
    [[item EXCEPT ![1] = LStrip(item[1])] EXCEPT ![Len(item)] = RStrip(@)]

RECURSIVE DiscoverKeys(_, _, _, _)
\* the nested loops over meta_cache.items() and d.items(): every key, at its
\* first sight
DiscoverKeys(mc, i, j, list_metadata) ==
    IF i > Len(mc) THEN list_metadata
    ELSE IF j > Len(mc[i].v) THEN DiscoverKeys(mc, i + 1, 1, list_metadata)
    ELSE DiscoverKeys(mc, i, j + 1,
             IF ListHas(list_metadata, mc[i].v[j].k) THEN list_metadata
             ELSE Append(list_metadata, mc[i].v[j].k))

\* the list_metadata local with "backtrace" dropped at verbose 1 as well
ListedMetadata_drop_tier1(a) ==
    IF a.metadata = <<>>
    THEN IF a.verbose <= 1 /\ ListHas(DiscoverKeys(meta_cache, 1, 1, <<>>), <<"backtrace">>)
         THEN ListRemove(DiscoverKeys(meta_cache, 1, 1, <<>>), <<"backtrace">>)
         ELSE DiscoverKeys(meta_cache, 1, 1, <<>>)
    ELSE [i \in 1..Len(a.metadata) |-> Strip(a.metadata[i])]

\* the list_metadata local of ptmeta.list_metadata
ListedMetadata(a) ==
    IF a.metadata = <<>>
    THEN IF a.verbose = 0 /\ ListHas(DiscoverKeys(meta_cache, 1, 1, <<>>), <<"backtrace">>)
         THEN ListRemove(DiscoverKeys(meta_cache, 1, 1, <<>>), <<"backtrace">>)
         ELSE DiscoverKeys(meta_cache, 1, 1, <<>>)
    ELSE [i \in 1..Len(a.metadata) |-> Strip(a.metadata[i])]

\* the lines one matching address adds: a table row (verbose <= 1) or the
\* block of its epilog; r is what get_metadata returned for it
ListEntry(a, k, r, acc) ==
    IF r.raised # "" THEN [acc EXCEPT !.exc = r.raised]
    ELSE IF a.verbose <= 1
    THEN [acc EXCEPT !.out = Append(acc.out,
             <<"| " \o Colorize(r.colorize_func, "0x" \o HexText(k))>> \o r.suffix)]
    ELSE [acc EXCEPT !.out = acc.out \o
             << <<Colorize(r.colorize_func, "0x" \o HexText(k)) \o ":">>, r.epilog >>]

RECURSIVE ListRows(_, _, _, _, _)
\* "for k, d in meta_cache.items()": stops at the first get_metadata call
\* that raises
ListRows(a, address, list_metadata, i, acc) ==
    IF acc.exc # "" \/ i > Len(meta_cache) THEN acc
    ELSE IF address = <<>> \/ <<meta_cache[i].k>> = address
    THEN ListRows(a, address, list_metadata, i + 1,
             ListEntry(a, meta_cache[i].k,
                       get_metadata(meta_cache[i].k, MetadataList(list_metadata)), acc))
    ELSE ListRows(a, address, list_metadata, i + 1, acc)

\* the names of a set of functions as pprint shows them, sorted
FunctionNames == <<"f1", "f2", "f3">>

\* pprint.pprint of a set of names
PPrintNames(names) ==
    <<"{">> \o Join(", ", [i \in 1..Len(names) |-> "'" \o names[i] \o "'"]) \o <<"}">>

PPrintSet(S) == PPrintNames(SelectSeq(FunctionNames, LAMBDA f : f \in S))

\* the table header of verbose <= 1
HeaderLine(list_metadata) ==
    <<"| address | ">>
        \o Join(" | ", [i \in 1..Len(list_metadata) |-> KeyText(list_metadata[i])])
        \o <<" |">>

\* the listing of the database, for the list_metadata local lm
ListDatabase(a, address, lm) ==
    IF Len(meta_cache) # 0
    THEN ListRows(a, address, lm, 1,
             [out |-> IF a.verbose <= 1
                      THEN << <<"Metadata database">>, HeaderLine(lm) >>
                      ELSE << <<"Metadata database">> >>,
              exc |-> ""])
    ELSE [out |-> << <<"Metadata database">>, <<"N/A">> >>, exc |-> ""]

\* the listing of backtrace_ignore that follows
ListIgnored ==
    << <<"">>, <<"Function ignore list for backtraces">>,
       IF Cardinality(backtrace_ignore) # 0
       THEN PPrintSet(backtrace_ignore) ELSE <<"N/A">> >>

\* rows: the listing of the database, or the exception that cut it short
ListFinish(rows) ==
    IF rows.exc # ""
    THEN Effect(meta_cache, backtrace_ignore, db_file, rows.out, rows.exc)
    ELSE Printed(rows.out \o ListIgnored)

\* the database with the ignored functions taken out of the stored frames
FilterStored(mc) ==
    [i \in 1..Len(mc) |->
        [k |-> mc[i].k,
         v |-> [j \in 1..Len(mc[i].v) |->
                  IF mc[i].v[j].k = <<"backtrace">>
                  THEN [k |-> mc[i].v[j].k,
                        v |-> BacktraceDict(mc[i].v[j].v.str,
                                  SelectSeq(mc[i].v[j].v.funcs,
                                            LAMBDA f : f \notin backtrace_ignore))]
                  ELSE mc[i].v[j]]]]

\* a listing that filters the stored frames in place
list_metadata_filtering(a, address) ==
    [ListFinish(ListDatabase(a, address, ListedMetadata(a)))
        EXCEPT !.meta_cache = FilterStored(meta_cache)]

list_metadata(a, address) ==
    ListFinish(ListDatabase(a, address, ListedMetadata(a)))

----------------------------------------------------------------------------
(* ptmeta.invoke *)

\* self.args: the parsed command line. action is "None" when no sub-command is
\* given; address and metadata are <<>> for None, else <<text>> and the
\* comma-separated items of the text; value is PyNone when absent
Args(action, address, key, value, metadata, feature, values, verbose, save, load) ==
    [action |-> action, address |-> address, key |-> key, value |-> value,
     metadata |-> metadata, feature |-> feature, values |-> values,
     verbose |-> verbose, save |-> save, load |-> load]

\* "addresses = self.dbg.parse_address(self.args.address)", for the actions
\* that take an address
ParsedAddresses(a) ==
    IF a.action \in {"list", "add", "del"} /\ a.address # <<>>
    THEN parse_address(a.address[1])
    ELSE <<>>

\* "address = None ... address = addresses[0]"; <<>> stands for None
FirstAddress(addresses) ==
    IF addresses = <<>> THEN <<>> ELSE <<addresses[1]>>

\* the dispatch of invoke() once the address is resolved; address is <<>> for
\* None; capture is what self.dbg.get_backtrace() would return
dispatch(a, address, capture) ==
    IF a.action = "list" THEN list_metadata(a, address)
    ELSE IF a.action = "del" THEN delete_metadata(a, address[1])
    ELSE IF a.action = "config"
    THEN configure_metadata(a, a.feature, a.key, a.values)
    ELSE IF a.action = "add"
    THEN add_metadata(a, address[1], a.key, a.value, capture)
    ELSE IF a.save
    THEN Effect(meta_cache, backtrace_ignore, save_metadata_to_file,
                << <<"Saving metadata database to file...">> >>, "")
    ELSE load_metadata_from_file(<< <<"Loading metadata database from file...">> >>)

\* the body of invoke()
invoke(a, capture) ==
    IF a.action = "None" /\ ~a.save /\ ~a.load
    THEN Printed(<< <<"WARNING: requires an action">>, HelpLine >>)
    ELSE IF a.action \in {"list", "add", "del"} /\ a.address # <<>>
            /\ Len(ParsedAddresses(a)) = 0
    THEN Printed(<< <<"WARNING: No valid address supplied">>, HelpLine >>)
    ELSE dispatch(a, FirstAddress(ParsedAddresses(a)), capture)

\* the state a command leaves: e is the effect of invoke() on the arguments a
Leaves(a, e) ==
    /\ meta_cache' = e.meta_cache
    /\ backtrace_ignore' = e.backtrace_ignore
    /\ db_file' = e.db_file
    /\ args' = a
    /\ out' = e.out
    /\ exc' = e.exc

\* one command: invoke() runs on the parsed arguments a
Invoke(a, capture) == Leaves(a, invoke(a, capture))

----------------------------------------------------------------------------
(* the session: bounds and the commands given *)

\* the largest number of fields, over all records, an add may bring the
\* database to
MaxFields == 2

\* the same, in the sessions that also save and load snapshots
MaxSnapFields == 2

RECURSIVE TotalFields(_)
TotalFields(mc) ==
    IF mc = <<>> THEN 0 ELSE Len(Head(mc).v) + TotalFields(Tail(mc))

\* what the debugger may capture when a backtrace is added
Captures ==
    {BacktraceDict("#0  f1 ()\n#1  f2 ()\n#2  f3 ()\n", <<"f1", "f2", "f3">>),
     BacktraceDict("No stack.\n", <<>>)}

\* (key, value) pairs given to "ptmeta add"; the keys are "tag", "tag:x",
\* "a:b:c", "color" and "backtrace"
AddPairs ==
    {<< <<"tag">>, PyStr("v1") >>,
     << <<"tag">>, PyNone >>,
     << <<"tag", "x">>, PyStr("v2") >>,
     << <<"a", "b", "c">>, PyStr("v3") >>,
     << <<"color">>, PyStr("green") >>,
     << <<"color">>, PyStr("ultraviolet") >>,
     << <<"color">>, PyNone >>,
     << <<"backtrace">>, PyNone >>}

\* (address, key, value, verbose) given to "ptmeta add": every pair on two
\* addresses, a verbose add, and an address expression that resolves to nothing
AddInputs ==
    {<<text, kv[1], kv[2], 0>> : text \in {"0x10", "0x20"}, kv \in AddPairs}
        \cup {<<"0x10", <<"tag">>, PyStr("v1"), 1>>,
              <<"bogus", <<"tag">>, PyStr("v1"), 0>>}

\* (address, verbose) given to "ptmeta del"
DelInputs == {<<"0x10", 0>>, <<"0x20", 0>>, <<"0x20", 1>>, <<"bogus", 0>>}

\* (feature, key, values) given to "ptmeta config"
ConfigInputs ==
    {<<"ignore", <<"backtrace">>, <<"f2">> >>,
     <<"ignore", <<"backtrace">>, <<"f1", "f3">> >>,
     <<"ignore", <<"tag">>, <<"f1">> >>,
     <<"show", <<"backtrace">>, <<"f1">> >>,
     <<"show", <<"tag">>, <<"f1">> >>}

\* (address, --metadata, verbose) given to "ptmeta list"; the metadata texts
\* are "tag, backtrace:2" and "a:b:c"
ListInputs ==
    {<< <<>>, <<>>, v >> : v \in 0..3}
        \cup {<< <<"0x10">>, << <<"tag">>, <<" backtrace", "2">> >>, 0 >>,
              << <<"bogus">>, <<>>, 0 >>,
              << <<>>, << <<"a", "b", "c">> >>, 0 >>}

SnapAddInputs ==
    {<<text, kv[1], kv[2], 0>> :
        text \in {"0x10", "0x20"},
        kv \in {<< <<"tag">>, PyStr("v1") >>,
                << <<"color">>, PyStr("green") >>,
                << <<"color">>, PyStr("ultraviolet") >>}}
        \cup {<<"0x10", <<"backtrace">>, PyNone, 0>>}

SnapCaptures == {BacktraceDict("#0  f1 ()\n#1  f2 ()\n", <<"f1", "f2">>)}

SnapDelInputs == {<<"0x10", 0>>, <<"0x20", 0>>, <<"0x20", 1>>}

SnapConfigInputs == {<<"ignore", <<"backtrace">>, <<"f2">> >>}

SnapListInputs == {<< <<>>, <<>>, 0 >>}

NoArgs == Args("", <<>>, <<>>, PyNone, <<>>, "", <<>>, 0, FALSE, FALSE)

NoCapture == BacktraceDict("", <<>>)

Init ==
    /\ meta_cache = <<>>
    /\ backtrace_ignore = {}
    /\ db_file = NoFile
    /\ args = NoArgs
    /\ out = <<>>
    /\ exc = ""

\* ptmeta add <address> <key> [value]
Add(inputs, captures, bound) ==
    \E i \in inputs :
        \E capture \in IF i[2] = <<"backtrace">> THEN captures ELSE {NoCapture} :
            LET a == Args("add", <<i[1]>>, i[2], i[3], <<>>, "", <<>>, i[4],
                          FALSE, FALSE)
            IN  /\ TotalFields(invoke(a, capture).meta_cache) <= bound
                /\ Invoke(a, capture)

\* ptmeta del <address>; flags: whether -L may be given with it
Del(inputs, flags) ==
    \E i \in inputs, load \in flags :
        /\ Invoke(Args("del", <<i[1]>>, <<>>, PyNone, <<>>, "", <<>>, i[2],
                       FALSE, load), NoCapture)
        /\ args'.action = "del"

\* ptmeta list [address] [-M metadata] [-v ...]; flags: whether -S may be
\* given with it
List(inputs, flags) ==
    \E i \in inputs, save \in flags :
        /\ Invoke(Args("list", i[1], <<>>, PyNone, i[2], "", <<>>, i[3],
                       save, FALSE), NoCapture)
        /\ args'.action = "list"

\* ptmeta config <feature> <key> <values...>
Config(inputs) ==
    \E c \in inputs :
        /\ Invoke(Args("config", <<>>, c[2], PyNone, <<>>, c[1], c[3], 0,
                       FALSE, FALSE), NoCapture)
        /\ args'.action = "config"

\* ptmeta, with no action and no flag
NoAction ==
    /\ Invoke(Args("None", <<>>, <<>>, PyNone, <<>>, "", <<>>, 0, FALSE, FALSE),
              NoCapture)
    /\ ~args'.save /\ ~args'.load

\* ptmeta -S (with or without -L: the save is done and invoke returns)
Save ==
    \E load \in BOOLEAN :
        /\ Invoke(Args("None", <<>>, <<>>, PyNone, <<>>, "", <<>>, 0, TRUE, load),
                  NoCapture)
        /\ args'.save

\* ptmeta -L
Load ==
    /\ Invoke(Args("None", <<>>, <<>>, PyNone, <<>>, "", <<>>, 0, FALSE, TRUE),
              NoCapture)
    /\ args'.load

\* a session of add, del, list and config commands
Next ==
    \/ Add(AddInputs, Captures, MaxFields)
    \/ Del(DelInputs, {FALSE})
    \/ List(ListInputs, {FALSE})
    \/ Config(ConfigInputs)
    \/ NoAction

Spec == Init /\ [][Next]_vars

\* a session that also saves and loads the snapshot file
SnapNext ==
    \/ Add(SnapAddInputs, SnapCaptures, MaxSnapFields)
    \/ Del(SnapDelInputs, BOOLEAN)
    \/ List(SnapListInputs, BOOLEAN)
    \/ Config(SnapConfigInputs)
    \/ Save
    \/ Load

SnapSpec == Init /\ [][SnapNext]_vars

----------------------------------------------------------------------------
(* the queries the properties range over *)

Addresses == {16, 32}

\* requested metadata names: "tag", "tag:x", "color", "color:x", "backtrace",
\* "backtrace:-1" .. "backtrace:3", "backtrace:x", "nope", "a:b:c"
QueryKeys ==
    {<<"tag">>, <<"tag", "x">>, <<"color">>, <<"color", "x">>, <<"backtrace">>,
     <<"backtrace", "-1">>, <<"backtrace", "0">>, <<"backtrace", "1">>,
     <<"backtrace", "2">>, <<"backtrace", "3">>, <<"backtrace", "x">>,
     <<"nope">>, <<"a", "b", "c">>}

\* the list_metadata arguments: "all", the empty list, every single name and
\* every pair of names
QueryLists ==
    {MetadataAll, MetadataList(<<>>)}
        \cup {MetadataList(<<k>>) : k \in QueryKeys}
        \cup {MetadataList(<<k1, k2>>) : k1 \in QueryKeys, k2 \in QueryKeys}

\* the address the latest command named, when its expression resolved
CommandAddress == ParsedAddresses(args)[1]

\* the latest command was "add" and add_metadata stored its value
AddSucceeded ==
    /\ args.action = "add"
    /\ ParsedAddresses(args) # <<>>
    /\ ~(args.key = <<"color">>
         /\ ~(args.value.kind = "str" /\ args.value.str \in Palette))

\* the latest command was "del" on an address
DelCalled ==
    /\ args.action = "del"
    /\ ParsedAddresses(args) # <<>>

\* the latest command was the load of the snapshot: -L alone
LoadCalled ==
    /\ args.action = "None"
    /\ ~args.save
    /\ args.load

\* what get_metadata returns for an address that has no record
NotFound ==
    Returned(TRUE, <<>>, <<>>,
             <<"chunk address not found in metadata database\n">>, "str")

----------------------------------------------------------------------------
(* C1 *)

\* C1: after a successful add(a, k, v) with k neither "color" nor
\* "backtrace", get_metadata(a, [k]) returns the list [v].
C1_AddThenQueryReturnsValue ==
    (AddSucceeded /\ args.key \notin {<<"color">>, <<"backtrace">>})
        => /\ get_metadata(CommandAddress, MetadataList(<<args.key>>)).raised = ""
           /\ ~get_metadata(CommandAddress, MetadataList(<<args.key>>)).L_is_None
           /\ get_metadata(CommandAddress, MetadataList(<<args.key>>)).L = <<args.value>>

----------------------------------------------------------------------------
(* C2 *)

\* the frames of a stored backtrace that are not ignored, all of them
Unignored(funcs) == SelectSeq(funcs, LAMBDA f : f \notin backtrace_ignore)

\* the entry a field of a record stands for in the returned list
FieldEntry(field) ==
    IF field.k = <<"backtrace">> THEN PyList(Unignored(field.v.funcs)) ELSE field.v

\* the fields of a record that show in the returned list: all but "color"
ShownFields(record) == SelectSeq(record, LAMBDA field : field.k # <<"color">>)

\* C2: for every address that has a record, get_metadata(a, "all") returns one
\* entry per field of the record (the color aside, which only sets the
\* colorizer), in the order the fields were inserted, the backtrace resolved
\* with no frame limit.
C2_AllYieldsFieldsInInsertionOrder ==
    \A a \in Addresses :
        DictHas(meta_cache, a)
            => /\ get_metadata(a, MetadataAll).raised = ""
               /\ get_metadata(a, MetadataAll).L =
                      [i \in 1..Len(ShownFields(DictGet(meta_cache, a))) |->
                          FieldEntry(ShownFields(DictGet(meta_cache, a))[i])]

----------------------------------------------------------------------------
(* C3 *)

\* C3: in every state add, del and config commands reach, get_metadata
\* returns (raises nothing) for every address and every list_metadata
\* argument, "all" included.
C3_QueryNeverRaises ==
    \A a \in Addresses, lm \in QueryLists : get_metadata(a, lm).raised = ""

----------------------------------------------------------------------------
(* C4 *)

MaxFrames == {<<>>, <<-1>>, <<0>>, <<1>>, <<2>>, <<3>>}

\* the first n entries of a list; all of them when n is None (<<>>) or -1
Truncated(l, n) ==
    IF n = <<>> \/ n = <<-1>> THEN l
    ELSE IF Len(l) <= n[1] THEN l
    ELSE SubSeq(l, 1, n[1])

\* C4: for every record with a backtrace and every maxFrames, get_functions
\* returns the stored frames without the ignored ones, in their order, cut to
\* the first maxFrames (not cut when maxFrames is -1 or None).
C4_ResolveFiltersThenTruncates ==
    \A a \in Addresses, n \in MaxFrames :
        (DictHas(meta_cache, a) /\ DictHas(DictGet(meta_cache, a), <<"backtrace">>))
            => get_functions(a, n) =
                   PyList(Truncated(
                       Unignored(DictGet(DictGet(meta_cache, a), <<"backtrace">>).funcs),
                       n))

----------------------------------------------------------------------------
(* C5 *)

\* the latest command was an add of a color that is not a palette name
InvalidColorAdd ==
    /\ args.action = "add"
    /\ ParsedAddresses(args) # <<>>
    /\ args.key = <<"color">>
    /\ ~(args.value.kind = "str" /\ args.value.str \in Palette)

\* C5: an add of a color that is not one of the palette names changes neither
\* the database nor the ignore set: a color stored before is kept, and no
\* record is created.
C5_InvalidColorMutatesNothing ==
    [][InvalidColorAdd' =>
          /\ meta_cache' = meta_cache
          /\ backtrace_ignore' = backtrace_ignore]_vars

\* add green, then add ultraviolet on the same address: green is still there
C5_Witness ==
    /\ InvalidColorAdd
    /\ args.value = PyStr("ultraviolet")
    /\ DictHas(meta_cache, CommandAddress)
    /\ DictHas(DictGet(meta_cache, CommandAddress), <<"color">>)
    /\ DictGet(DictGet(meta_cache, CommandAddress), <<"color">>) = PyStr("green")

----------------------------------------------------------------------------
(* C6 *)

\* C6: whatever add, del, config, save and load commands were given, every
\* value stored under "color" is a palette name.
C6_StoredColorsAreInPalette ==
    \A i \in 1..Len(meta_cache) :
        DictHas(meta_cache[i].v, <<"color">>)
            => /\ DictGet(meta_cache[i].v, <<"color">>).kind = "str"
               /\ DictGet(meta_cache[i].v, <<"color">>).str \in Palette

\* a load of the snapshot has succeeded and the database holds a record whose
\* stored color resolves to the palette's green colorizer
C6_Witness ==
    /\ LoadCalled
    /\ exc = ""
    /\ \E i \in 1..Len(meta_cache) :
           /\ DictHas(meta_cache[i].v, <<"color">>)
           /\ get_metadata(meta_cache[i].k, MetadataList(<<<<"color">>>>)).colorize_func
                  = "pu.green"

----------------------------------------------------------------------------
(* C7 *)

\* C7: no command, save and load included, ever removes a name from the
\* ignore set.
C7_IgnoreSetNeverShrinks ==
    [][backtrace_ignore \subseteq backtrace_ignore']_vars

\* C7, amended: every command other than the load of a snapshot leaves the
\* ignore set a superset of what it was; a load puts back the saved set.
C7_IgnoreSetShrinksOnlyOnLoad ==
    [][LoadCalled' \/ backtrace_ignore \subseteq backtrace_ignore']_vars

\* a config command has put a name in the ignore set after a snapshot was saved
C7_Witness ==
    /\ args.action = "config"
    /\ db_file.exists
    /\ "f2" \in backtrace_ignore
    /\ "f2" \notin Unpickle(db_file.data).backtrace_ignore

----------------------------------------------------------------------------
(* C8 *)

\* a record of address a goes only with del(a) and comes only with a
\* successful add on a
OnlyDelAndAdd(a) ==
    /\ (DictHas(meta_cache, a) /\ ~DictHas(meta_cache', a))
           => (DelCalled /\ CommandAddress = a)'
    /\ (~DictHas(meta_cache, a) /\ DictHas(meta_cache', a))
           => (AddSucceeded /\ CommandAddress = a)'

\* C8: a record is created only by a successful add on its address and
\* destroyed only by a del of its address.
C8_RecordsComeAndGoByAddAndDel ==
    [][\A a \in Addresses : OnlyDelAndAdd(a)]_vars

\* C8, amended: a record is created only by a successful add on its address
\* or by the load of a snapshot that holds it, and destroyed only by a del of
\* its address or by the load of a snapshot that lacks it.
C8_RecordsComeAndGoByAddDelAndLoad ==
    [][LoadCalled' \/ \A a \in Addresses : OnlyDelAndAdd(a)]_vars

\* a del has removed the record of 0x20 (it printed so) and left another one
C8_Witness ==
    /\ DelCalled
    /\ args.verbose = 1
    /\ out # <<>>
    /\ ~DictHas(meta_cache, CommandAddress)
    /\ Len(meta_cache) = 1
    /\ db_file.exists

----------------------------------------------------------------------------
(* C9 *)

\* C9: del(a) removes the record of a, if any, and nothing else: the other
\* records, in their order, and the ignore set are as before, no error is
\* raised, and a query on a then reports the address as not found.
C9_DelRemovesOnlyThatRecord ==
    [][DelCalled' =>
          /\ meta_cache' = SelectSeq(meta_cache, LAMBDA e : e.k # CommandAddress')
          /\ backtrace_ignore' = backtrace_ignore
          /\ exc' = ""
          /\ \A lm \in QueryLists : get_metadata(CommandAddress, lm)' = NotFound]_vars

\* a del has removed the record of 0x20 (it printed so); the record of 0x10
\* is still there
C9_Witness ==
    /\ DelCalled
    /\ out # <<>>
    /\ CommandAddress = 32
    /\ ~DictHas(meta_cache, 32)
    /\ DictHas(meta_cache, 16)
    /\ get_metadata(32, MetadataAll) = NotFound

----------------------------------------------------------------------------
(* C10 *)

\* the "key not found" line of the epilog for the name k
KeyNotFoundLine(k) == "'" \o KeyText(k) \o "' key not found in metadata database\n"

\* C10: a query on an address with no record returns (None, "", the "address
\* not found" epilog, str) whatever is requested; a query of one name k, not
\* "color", that the record of the address lacks returns [None], the suffix
\* " | N/A |" and an epilog holding the "key not found" line for k.
C10_MissesAreData ==
    \A a \in Addresses :
        /\ ~DictHas(meta_cache, a)
               => \A lm \in QueryLists : get_metadata(a, lm) = NotFound
        /\ DictHas(meta_cache, a)
               => \A k \in QueryKeys \ {<<"color">>} :
                      ~DictHas(DictGet(meta_cache, a), k)
                          => /\ get_metadata(a, MetadataList(<<k>>)).raised = ""
                             /\ get_metadata(a, MetadataList(<<k>>)).L = <<PyNone>>
                             /\ Text(get_metadata(a, MetadataList(<<k>>)).suffix)
                                    = " | N/A |"
                             /\ ListHas(get_metadata(a, MetadataList(<<k>>)).epilog,
                                        KeyNotFoundLine(k))

----------------------------------------------------------------------------
(* C11 *)

\* the colorizer a query returns for a record: the palette function of its
\* stored color, str when it has none
ColorizerOf(record) ==
    IF DictHas(record, <<"color">>)
    THEN colorize_table[DictGet(record, <<"color">>).str]
    ELSE "str"

\* C11: for every address that has a record, get_metadata(a, ["color"])
\* returns the empty list, the empty suffix and the empty epilog, whether or
\* not the record has a color; only the colorizer follows the stored color.
C11_ColorOnlyQueryIsEmpty ==
    \A a \in Addresses :
        DictHas(meta_cache, a)
            => get_metadata(a, MetadataList(<< <<"color">> >>))
                   = Returned(FALSE, <<>>, <<>>, <<>>,
                              ColorizerOf(DictGet(meta_cache, a)))

\* one record has a color (the query returns its colorizer), another has none
C11_Witness ==
    /\ DictHas(meta_cache, 16) /\ DictHas(meta_cache, 32)
    /\ DictHas(DictGet(meta_cache, 16), <<"color">>)
    /\ ~DictHas(DictGet(meta_cache, 32), <<"color">>)
    /\ get_metadata(16, MetadataList(<< <<"color">> >>)).colorize_func = "pu.green"
    /\ get_metadata(32, MetadataList(<< <<"color">> >>)).colorize_func = "str"
    /\ get_metadata(16, MetadataList(<< <<"color">> >>)).L = <<>>

----------------------------------------------------------------------------
(* C12 *)

\* the latest command was "config"
ConfigCalled == args.action = "config"

\* the latest command was an add or a del whose address expression resolved
\* to no address
NoValidAddress ==
    /\ args.action \in {"add", "del"}
    /\ args.address # <<>>
    /\ ParsedAddresses(args) = <<>>

\* the latest command had no action and no flag
NoActionCalled ==
    /\ args.action = "None"
    /\ ~args.save
    /\ ~args.load

\* the latest command printed a line that starts with the given text
Reported(text) == \E i \in 1..Len(out) : out[i] # <<>> /\ out[i][1] = text

\* C12: a config command with (feature, key) other than ("ignore",
\* "backtrace") reports a warning and changes neither the database nor the
\* ignore set; ("ignore", "backtrace") adds the values to the ignore set and
\* leaves the database alone; an add or del on an address expression that
\* resolves to nothing, and a command with no action, change neither.
C12_InputErrorsMutateNothing ==
    [][/\ (ConfigCalled' /\ ~(args'.feature = "ignore" /\ args'.key = <<"backtrace">>))
            => /\ meta_cache' = meta_cache
               /\ backtrace_ignore' = backtrace_ignore
               /\ (Reported("WARNING: Unsupported feature")
                      \/ Reported("WARNING: Unsupported key"))'
       /\ (ConfigCalled' /\ args'.feature = "ignore" /\ args'.key = <<"backtrace">>)
            => /\ meta_cache' = meta_cache
               /\ backtrace_ignore' =
                      backtrace_ignore
                          \cup {args'.values[i] : i \in 1..Len(args'.values)}
       /\ (NoValidAddress' \/ NoActionCalled')
            => /\ meta_cache' = meta_cache
               /\ backtrace_ignore' = backtrace_ignore
               /\ Reported("usage: ptmeta [-v] [-h] {add,del,list,config} ...")']_vars

\* "config ignore tag f1" was refused while the database and the ignore set
\* hold something, and f1 is not ignored
C12_Witness ==
    /\ ConfigCalled
    /\ args.feature = "ignore"
    /\ args.key = <<"tag">>
    /\ Reported("WARNING: Unsupported key")
    /\ meta_cache # <<>>
    /\ backtrace_ignore = {"f2"}

----------------------------------------------------------------------------
(* C13 *)

\* C13: no field other than "backtrace" is ever stored with an absent value
\* (None): an add without a value, for a key other than "backtrace", stores
\* nothing.
C13_AddWithoutValueStoresNothing ==
    \A i \in 1..Len(meta_cache) :
        \A j \in 1..Len(meta_cache[i].v) :
            meta_cache[i].v[j].k # <<"backtrace">>
                => meta_cache[i].v[j].v.kind # "None"

----------------------------------------------------------------------------
(* C14 *)

\* the latest command was the save of the snapshot: -S, with or without -L
SaveCalled ==
    /\ args.action = "None"
    /\ args.save

\* the globals as one value
Globals == [meta_cache |-> meta_cache, backtrace_ignore |-> backtrace_ignore]

\* C14: a save leaves the database and the ignore set as they are and writes
\* a file from which pickle.load rebuilds exactly them; no other command
\* touches the file; a load sets the database and the ignore set to what the
\* file holds. Hence a load right after a save changes nothing, and a load
\* after other commands brings back the database and the ignore set of the
\* time of the save.
C14_SaveThenLoadRoundTrip ==
    [][/\ SaveCalled'
            => /\ Globals' = Globals
               /\ db_file'.exists
               /\ Unpickle(db_file'.data) = Globals
       /\ ~SaveCalled' => db_file' = db_file
       /\ (LoadCalled' /\ db_file.exists)
            => /\ exc' = ""
               /\ Globals' = Unpickle(db_file.data)]_vars

\* a load has brought back a record with a backtrace and a non-empty ignore
\* set
C14_Witness ==
    /\ LoadCalled
    /\ exc = ""
    /\ backtrace_ignore = {"f2"}
    /\ \E i \in 1..Len(meta_cache) :
           /\ DictHas(meta_cache[i].v, <<"backtrace">>)
           /\ DictGet(meta_cache[i].v, <<"backtrace">>).funcs = <<"f1", "f2">>
    /\ Globals = Unpickle(db_file.data)

----------------------------------------------------------------------------
(* C15 *)

\* the latest command was "list"
ListCalled == args.action = "list"

\* C15: a list command (which resolves and queries every record it shows)
\* leaves the database and the ignore set as they are, and get_functions
\* returns after it what it returned before it; a config command leaves the
\* database, stored frames and raw text included, as it is; and in the state
\* a list command leaves, the same listing run again prints the same lines:
\* the queries made twice return identical results.
C15_ReadsArePure ==
    /\ [][/\ ListCalled'
               => /\ meta_cache' = meta_cache
                  /\ backtrace_ignore' = backtrace_ignore
                  /\ \A a \in Addresses, n \in MaxFrames :
                         get_functions(a, n)' = get_functions(a, n)
          /\ ConfigCalled' => meta_cache' = meta_cache]_vars
    /\ [](ListCalled => /\ out = invoke(args, NoCapture).out
                        /\ exc = invoke(args, NoCapture).exc)

\* a listing has shown a backtrace with f2 filtered out, and the stored
\* frames still hold f2
C15_Witness ==
    /\ ListCalled
    /\ exc = ""
    /\ args.verbose = 1
    /\ "f2" \in backtrace_ignore
    /\ DictHas(meta_cache, 16)
    /\ DictHas(DictGet(meta_cache, 16), <<"backtrace">>)
    /\ DictGet(DictGet(meta_cache, 16), <<"backtrace">>).funcs = <<"f1", "f2", "f3">>
    /\ get_metadata(16, MetadataList(<< <<"backtrace", "-1">> >>)).L
           = <<PyList(<<"f1", "f3">>)>>
    /\ \E i \in 1..Len(out) : \E j \in 1..Len(out[i]) : out[i][j] = "f1"

----------------------------------------------------------------------------
(* C16 *)

RECURSIVE AllKeys(_)
\* the field names of all records, record after record, with repetitions
AllKeys(mc) ==
    IF mc = <<>> THEN <<>> ELSE DictKeys(Head(mc).v) \o AllKeys(Tail(mc))

RECURSIVE FirstSeen(_)
\* a list without its repetitions, each element at its first place
FirstSeen(l) ==
    IF l = <<>> THEN <<>>
    ELSE IF ListHas(SubSeq(l, 1, Len(l) - 1), l[Len(l)])
    THEN FirstSeen(SubSeq(l, 1, Len(l) - 1))
    ELSE Append(FirstSeen(SubSeq(l, 1, Len(l) - 1)), l[Len(l)])

Without(l, x) == SelectSeq(l, LAMBDA e : e # x)

\* the arguments of "ptmeta list [-M metadata] [-v ...]" on all addresses
ListArgs(metadata, verbose) ==
    Args("list", <<>>, <<>>, PyNone, metadata, "", <<>>, verbose, FALSE, FALSE)

\* the latest command was a list that printed the table: verbose <= 1, a
\* database that is not empty, no address expression that resolves to nothing
TablePrinted ==
    /\ ListCalled
    /\ args.verbose <= 1
    /\ meta_cache # <<>>
    /\ (args.address = <<>> \/ ParsedAddresses(args) # <<>>)

\* C16: without -M the field list of a listing is the field names of all
\* records in first-seen order, without "backtrace" at verbose 0 and with it
\* at verbose 1, and the table header shows that list; with -M the field
\* list is the requested one (blanks around the items aside), "backtrace"
\* included, at every verbosity.
C16_ListedFieldsAreDiscoveredOrRequested ==
    /\ ListedMetadata(ListArgs(<<>>, 0))
           = Without(FirstSeen(AllKeys(meta_cache)), <<"backtrace">>)
    /\ ListedMetadata(ListArgs(<<>>, 1)) = FirstSeen(AllKeys(meta_cache))
    /\ \A v \in 0..3 :
           /\ ListedMetadata(ListArgs(<< <<"tag">>, <<"backtrace">> >>, v))
                  = << <<"tag">>, <<"backtrace">> >>
           /\ ListedMetadata(ListArgs(<< <<"tag">>, <<" backtrace", "2">> >>, v))
                  = << <<"tag">>, <<"backtrace", "2">> >>
    /\ (TablePrinted /\ args.metadata = <<>> /\ args.verbose = 0)
           => out[2] = HeaderLine(Without(FirstSeen(AllKeys(meta_cache)),
                                          <<"backtrace">>))
    /\ (TablePrinted /\ args.metadata = <<>> /\ args.verbose = 1)
           => out[2] = HeaderLine(FirstSeen(AllKeys(meta_cache)))

\* a listing at verbose 1, without -M, of two records: the header shows
\* "backtrace", first seen, then "tag"
C16_Witness ==
    /\ TablePrinted
    /\ args.metadata = <<>>
    /\ args.verbose = 1
    /\ exc = ""
    /\ Len(meta_cache) = 2
    /\ ListedMetadata(args) = << <<"backtrace">>, <<"tag">> >>
    /\ Text(out[2]) = "| address | backtrace | tag |"

----------------------------------------------------------------------------
(* C17 *)

\* the raw text of some stored backtrace is among the printed pieces
RawTextPrinted ==
    \E i \in 1..Len(meta_cache) :
        /\ DictHas(meta_cache[i].v, <<"backtrace">>)
        /\ \E l \in 1..Len(out) : \E j \in 1..Len(out[l]) :
               out[l][j] = DictGet(meta_cache[i].v, <<"backtrace">>).str

\* C17: as the docstring of list_metadata says, without -M the field list
\* at verbose 2 is the discovered one without "backtrace" and at verbose 3
\* the discovered one with all keys; a listing at verbose 2 without -M
\* prints no backtrace.
C17_Verbose2OmitsBacktrace ==
    /\ ListedMetadata(ListArgs(<<>>, 2))
           = Without(FirstSeen(AllKeys(meta_cache)), <<"backtrace">>)
    /\ ListedMetadata(ListArgs(<<>>, 3)) = FirstSeen(AllKeys(meta_cache))
    /\ (ListCalled /\ args.verbose = 2 /\ args.metadata = <<>>) => ~RawTextPrinted

----------------------------------------------------------------------------
(* C18 *)

\* the field specs of the form "name" or "name:param", the parameter of a
\* "backtrace" being an integer
WellFormedKeys ==
    {k \in QueryKeys :
        /\ Len(k) <= 2
        /\ (k[1] = "backtrace" /\ Len(k) = 2) => k[2] \in IntTexts}

\* the lists of field specs: the empty one, every single spec, and the pairs
\* of a bare name followed by a name, with or without a parameter
WellFormedLists ==
    {<<>>} \cup {<<k>> : k \in WellFormedKeys}
           \cup {<<k1, k2>> :
                    k1 \in {<<"color">>, <<"tag">>, <<"backtrace">>, <<"nope">>},
                    k2 \in {<<"color">>, <<"tag", "x">>, <<"backtrace", "2">>,
                            <<"nope">>}}

\* the specs whose field name is not "color", in request order
NonColor(specs) == SelectSeq(specs, LAMBDA spec : spec[1] # "color")

\* the number of pieces of a rope that are the given text
CountPieces(rope, piece) == Cardinality({i \in 1..Len(rope) : rope[i] = piece})

\* the entry of the returned list for a requested field name: None for a
\* field the record lacks, the stored value of a plain field, a list for
\* the backtrace
EntryFits(record, name, entry) ==
    IF ~DictHas(record, <<name>>) THEN entry = PyNone
    ELSE IF name = "backtrace" THEN entry.kind = "list"
    ELSE entry = DictGet(record, <<name>>)

\* r, returned for the specs on the record, is aligned
Aligned(record, specs, r) ==
    /\ r.raised = ""
    /\ ~r.L_is_None
    /\ Len(r.L) = Len(NonColor(specs))
    /\ \A i \in 1..Len(r.L) : EntryFits(record, NonColor(specs)[i][1], r.L[i])
    /\ CountPieces(r.suffix, " | ") = Len(NonColor(specs))
    /\ IF NonColor(specs) = <<>> THEN r.suffix = <<>>
       ELSE r.suffix[Len(r.suffix)] = " |"

----------------------------------------------------------------------------
(* C19 *)

\* r is what a query of one "backtrace" spec returns when the backtrace
\* resolves to the frames resolved: the cell is the frames joined by commas,
\* "filtered" when there is none; the epilog is the raw text; the list holds
\* the frames
RendersAs(r, raw, resolved) ==
    /\ r.raised = ""
    /\ r.L = <<PyList(resolved)>>
    /\ r.epilog = <<raw>>
    /\ Text(r.suffix)
           = " | " \o (IF resolved = <<>> THEN "filtered"
                       ELSE Text(Join(",", resolved))) \o " |"

\* the first of a list, as a list
FirstOf(l) == IF l = <<>> THEN <<>> ELSE <<l[1]>>

\* the claim for the stored backtrace bt of the address a
BacktraceRenders(a, bt) ==
    /\ RendersAs(get_metadata(a, MetadataList(<< <<"backtrace">> >>)),
                 bt.str, FirstOf(Unignored(bt.funcs)))
    /\ \A n \in IntTexts :
           RendersAs(get_metadata(a, MetadataList(<< <<"backtrace", n>> >>)),
                     bt.str, get_functions(a, <<ParseInt(n)>>).funcs)
    /\ \A n \in IntTexts \ {"0"} :
           get_functions(a, <<ParseInt(n)>>).funcs
               = Truncated(Unignored(bt.funcs), <<ParseInt(n)>>)
    /\ Unignored(bt.funcs) = <<>>
           => \A n \in IntTexts :
                  Text(get_metadata(a, MetadataList(<< <<"backtrace", n>> >>)).suffix)
                      = " | filtered |"

\* C19: for every record with a backtrace, the spec "backtrace" renders the
\* first stored function that is not ignored, the spec "backtrace:n" renders
\* the resolved frames joined by commas, both render "filtered" when every
\* stored frame is ignored or none was captured, and in every case the raw
\* text is the epilog and the resolved frames are the entry of the list.
C19_BacktraceSpecRendering ==
    \A a \in Addresses :
        (DictHas(meta_cache, a) /\ DictHas(DictGet(meta_cache, a), <<"backtrace">>))
            => BacktraceRenders(a, DictGet(DictGet(meta_cache, a), <<"backtrace">>))

\* the backtrace f1, f2, f3 of 0x10 with f2 ignored: "backtrace" renders f1,
\* "backtrace:2" renders f1,f3
C19_Witness ==
    /\ DictHas(meta_cache, 16)
    /\ DictHas(DictGet(meta_cache, 16), <<"backtrace">>)
    /\ backtrace_ignore = {"f2"}
    /\ Text(get_metadata(16, MetadataList(<< <<"backtrace">> >>)).suffix) = " | f1 |"
    /\ Text(get_metadata(16, MetadataList(<< <<"backtrace", "2">> >>)).suffix)
           = " | f1,f3 |"
    /\ get_metadata(16, MetadataList(<< <<"backtrace", "2">> >>)).epilog
           = <<"#0  f1 ()\n#1  f2 ()\n#2  f3 ()\n">>

----------------------------------------------------------------------------
(* C20 *)

\* C20: in the table a listing prints at verbose 0 and 1, the header holds
\* "address" and one label per listed field name, and the row of every
\* address holds the address and as many cells as the header has field
\* labels.
C20_RowsHaveAsManyCellsAsHeader ==
    (TablePrinted /\ exc = "")
        => /\ out[2] = HeaderLine(ListedMetadata(args))
           /\ \A i \in 3..(Len(out) - 3) :
                  CountPieces(out[i], " | ") = Len(ListedMetadata(args))

====
